---- MODULE Spec2Model ----
(***************************************************************************)
(* Model of the COVID-19 Global Data Tracker notebook (src/main.ipynb).    *)
(*                                                                         *)
(* The notebook is a linear run of cells ("Restart & Run All"): load the   *)
(* CSV, explore it, clean a country subset, derive death_rate, select the  *)
(* latest snapshot, plot, derive pct_vaccinated, select the global         *)
(* snapshot.  An exception that no cell catches stops the run.             *)
(*                                                                         *)
(* Values.  A float is a pair <<n, d>>: a finite value n/d in lowest terms *)
(* with d > 0, +inf = <<1,0>>, -inf = <<-1,0>>, NaN = <<0,0>>.  A parsed   *)
(* date is an integer ordinal, with NaT the integer sentinel pandas uses.  *)
(* A row is a function from column names to values, with its pandas index  *)
(* label under "index".                                                    *)
(***************************************************************************)
EXTENDS Integers, Sequences, FiniteSets, TLC

\* ------------------------------------------------------------------ bounds
MaxRows == 3

MaxDate == 2

MaxVal == 2

\* ------------------------------------------------------------------ floats
NaN == <<0, 0>>

PosInf == <<1, 0>>

NegInf == <<-1, 0>>

Num(n) == <<n, 1>>

Abs(n) == IF n < 0 THEN -n ELSE n

Sign(n) == IF n < 0 THEN -1 ELSE IF n = 0 THEN 0 ELSE 1

RECURSIVE GCD(_, _)
GCD(a, b) == IF b = 0 THEN a ELSE GCD(b, a % b)

\* the float nearest n/d (d # 0), kept as a fraction in lowest terms
Quot(n, d) ==
    LET g == GCD(Abs(n), Abs(d))
    IN  <<(Sign(d) * n) \div g, Abs(d) \div g>>

IsFinite(a) == a[2] # 0

\* IEEE-754 division as numpy performs it on float64 columns
TrueDiv(a, b) ==
    IF a = NaN \/ b = NaN THEN NaN
    ELSE IF IsFinite(a) /\ IsFinite(b)
         THEN IF b[1] = 0
              THEN IF a[1] = 0 THEN NaN
                   ELSE IF a[1] > 0 THEN PosInf ELSE NegInf
              ELSE Quot(a[1] * b[2], a[2] * b[1])
    ELSE IF IsFinite(b)
         THEN IF Sign(b[1]) < 0 THEN <<-a[1], 0>> ELSE a
    ELSE IF IsFinite(a) THEN Num(0)
    ELSE NaN

\* IEEE-754 multiplication
Mul(a, b) ==
    IF a = NaN \/ b = NaN THEN NaN
    ELSE IF IsFinite(a) /\ IsFinite(b) THEN Quot(a[1] * b[1], a[2] * b[2])
    ELSE IF (IsFinite(a) /\ a[1] = 0) \/ (IsFinite(b) /\ b[1] = 0) THEN NaN
    ELSE <<Sign(a[1]) * Sign(b[1]), 0>>

\* a <= b on floats other than NaN
FloatLe(a, b) ==
    IF a = NegInf \/ b = PosInf THEN TRUE
    ELSE IF a = PosInf \/ b = NegInf THEN FALSE
    ELSE a[1] * b[2] <= b[1] * a[2]

\* ------------------------------------------------------------------- dates
NaT == -2147483647

\* a date text "yyyy-mm-dd" is the tuple <<yyyy, mm, dd>>; a missing cell is <<>>
MissingText == <<>>

NotADate == <<2021, 13, 1>>

DateText(d) == <<2021, 4, d>>

DaysIn(m) == IF m = 2 THEN 28 ELSE IF m \in {4, 6, 9, 11} THEN 30 ELSE 31

Parseable(t) ==
    \/ t = MissingText
    \/ /\ Len(t) = 3
       /\ t[2] \in 1..12
       /\ t[3] \in 1..DaysIn(t[2])

\* pd.to_datetime on one cell: a missing cell becomes NaT, a date text a timestamp
to_datetime(t) ==
    IF t = MissingText THEN NaT ELSE (t[1] * 12 + (t[2] - 1)) * 31 + t[3]

\* elementwise == on a datetime column against a scalar: NaT equals nothing
DateEq(a, b) == a # NaT /\ b # NaT /\ a = b

\* Series.max() on a datetime column: skips NaT, NaT when nothing is left
RECURSIVE SeriesMaxFrom(_, _, _)
SeriesMaxFrom(s, i, acc) ==
    IF i > Len(s) THEN acc
    ELSE SeriesMaxFrom(s, i + 1,
            IF s[i].date = NaT THEN acc
            ELSE IF acc = NaT \/ s[i].date > acc THEN s[i].date ELSE acc)

RECURSIVE SeriesMinFrom(_, _, _)
SeriesMinFrom(s, i, acc) ==
    IF i > Len(s) THEN acc
    ELSE SeriesMinFrom(s, i + 1,
            IF s[i].date = NaT THEN acc
            ELSE IF acc = NaT \/ s[i].date < acc THEN s[i].date ELSE acc)

DateColumnMin(s) == SeriesMinFrom(s, 1, NaT)

DateColumnMax(s) == SeriesMaxFrom(s, 1, NaT)

\* ----------------------------------------------------------- configuration
countries == {"United States", "India", "Brazil", "United Kingdom", "Kenya", "South Africa"}

key_columns == {"total_cases", "new_cases", "total_deaths", "new_deaths",
                "total_vaccinations", "people_vaccinated", "population"}

NumericColumns == key_columns \cup {"total_cases_per_million"}

NoLocation == "<NaN>"

\* --------------------------------------------------------------- the input
InputLocations == {"Kenya", "Brazil", "kenya", "France"}

DateTexts == {MissingText, NotADate} \cup {DateText(d) : d \in 1..MaxDate}

Cell(vals) == {NaN} \cup {Num(n) : n \in vals}

\* rows that vary location and date, with some metrics present and some missing
StructRows ==
    { [location |-> l, date |-> t,
       total_cases |-> Num(2), new_cases |-> NaN,
       total_deaths |-> Num(1), new_deaths |-> Num(1),
       total_vaccinations |-> NaN, people_vaccinated |-> Num(1),
       population |-> Num(2), total_cases_per_million |-> NaN]
      : l \in InputLocations, t \in DateTexts }

\* rows that vary the metrics, for a configured, an unconfigured and a missing location
ValueRows ==
    { [location |-> l, date |-> DateText(MaxDate),
       total_cases |-> tc, new_cases |-> nc,
       total_deaths |-> td, new_deaths |-> nc,
       total_vaccinations |-> nc, people_vaccinated |-> pv,
       population |-> pop, total_cases_per_million |-> pm]
      : l \in {"Kenya", "France", NoLocation},
        tc \in Cell(0..MaxVal), td \in Cell(-1..1),
        pv \in Cell(0..1), pop \in Cell({0, MaxVal}),
        nc \in Cell({1}), pm \in Cell({1}) }

RECURSIVE SeqsUpTo(_, _)
SeqsUpTo(S, n) ==
    IF n = 0 THEN {<<>>}
    ELSE LET shorter == SeqsUpTo(S, n - 1)
         IN  shorter \cup {Append(s, x) : s \in {t \in shorter : Len(t) = n - 1}, x \in S}

CompanionRows ==
    { r \in StructRows : \/ r.location = "Kenya" /\ r.date = DateText(1)
                         \/ r.location = "France" /\ r.date = DateText(MaxDate) }

\* the longest files hold dated rows of correctly spelled locations only
DatedRows ==
    { r \in StructRows : r.date \notin {MissingText, NotADate} /\ r.location # "kenya" }

InputFiles ==
    SeqsUpTo(StructRows, MaxRows - 1)
    \cup {s \in SeqsUpTo(DatedRows, MaxRows) : Len(s) = MaxRows}
    \cup {<<v>> : v \in ValueRows}
    \cup {<<v, c>> : v \in ValueRows, c \in CompanionRows}

\* ------------------------------------------------------------------- state
VARIABLES
    pc,                \* the statement the run is at
    fileExists,        \* whether owid-covid-data.csv is there
    file,              \* the rows of the csv file
    defined,           \* the names bound in the kernel
    df, df_filtered, latest_date, df_latest, bar_data, df_global_latest,
    output,            \* what the run printed
    error              \* the exception that stopped the run, or "none"

vars == <<pc, fileExists, file, defined, df, df_filtered, latest_date,
          df_latest, bar_data, df_global_latest, output, error>>

frames == <<df, df_filtered, latest_date, df_latest, bar_data, df_global_latest>>

Init ==
    /\ pc = "load"
    /\ fileExists \in BOOLEAN
    /\ file \in (IF fileExists THEN InputFiles ELSE {<<>>})
    /\ defined = {}
    /\ df = <<>>
    /\ df_filtered = <<>>
    /\ latest_date = NaT
    /\ df_latest = <<>>
    /\ bar_data = <<>>
    /\ df_global_latest = <<>>
    /\ output = <<>>
    /\ error = "none"

\* ------------------------------------------------------ dataframe helpers
\* pd.read_csv: one row per record, labelled 0, 1, 2, ...
read_csv(f) == [i \in 1..Len(f) |-> f[i] @@ ("index" :> i - 1)]

SetColumn(r, c, v) == [k \in DOMAIN r \cup {c} |-> IF k = c THEN v ELSE r[k]]

isin_nocase(l, names) == \E n \in names : l = n \/ (l = "kenya" /\ n = "Kenya")

\* Series.isin: exact string membership
isin(l, names) == l \in names

fillna_every_numeric(r) ==
    [c \in DOMAIN r |-> IF c \in NumericColumns /\ r[c] = NaN THEN Num(0) ELSE r[c]]

fillna_skip_population(r) ==
    [c \in DOMAIN r |-> IF c \in key_columns \ {"population"} /\ r[c] = NaN THEN Num(0) ELSE r[c]]

\* df_filtered[key_columns] = df_filtered[key_columns].fillna(0), on one row
fillna_key_columns(r) ==
    [c \in DOMAIN r |-> IF c \in key_columns /\ r[c] = NaN THEN Num(0) ELSE r[c]]

replace_posinf_only(v) == IF v = PosInf THEN NaN ELSE v

\* .replace([np.inf, -np.inf], np.nan), on one cell
replace_inf(v) == IF v \in {PosInf, NegInf} THEN NaN ELSE v

\* df_filtered[df_filtered['date'] == latest_date]
rows_at(d, date) == SelectSeq(d, LAMBDA r : DateEq(r.date, date))

global_rows_at_own_max(d, date) ==
    SelectSeq(d, LAMBDA r : DateEq(r.date, DateColumnMax(d)))

\* df[df['date'] == latest_date]
global_rows_at(d, date) == SelectSeq(d, LAMBDA r : DateEq(r.date, date))

\* sort_values('pct_vaccinated', ascending=False): NaN last, ties in any order
IsSortedDesc(s) ==
    \A i \in 1..Len(s), j \in 1..Len(s) :
        i < j => \/ s[j].pct_vaccinated = NaN
                 \/ /\ s[i].pct_vaccinated # NaN
                    /\ FloatLe(s[j].pct_vaccinated, s[i].pct_vaccinated)

sort_values(s) ==
    { [i \in 1..Len(s) |-> s[p[i]]] :
        p \in { q \in [1..Len(s) -> 1..Len(s)] : \A i, j \in 1..Len(s) : q[i] = q[j] => i = j } }

Halt(e) ==
    /\ pc' = "halted"
    /\ error' = e

\* ----------------------------------------------------------------- actions
\* cell 1, try branch: the file is read
LoadData ==
    /\ pc = "load"
    /\ fileExists
    /\ df' = read_csv(file)
    /\ defined' = defined \cup {"df"}
    /\ output' = output \o <<"Data loaded successfully!", "Shape">>
    /\ pc' = "explore"
    /\ UNCHANGED <<fileExists, file, df_filtered, latest_date, df_latest,
                   bar_data, df_global_latest, error>>

\* cell 1, except branch: FileNotFoundError is caught and the guidance printed
LoadDataFileNotFound ==
    /\ pc = "load"
    /\ ~fileExists
    /\ output' = output \o <<"Error: File not found.", "Download from">>
    /\ pc' = "explore"
    /\ UNCHANGED <<fileExists, file, defined, frames, error>>

\* cell 2: df.info(), df.head(), df.isnull().sum()
Explore ==
    /\ pc = "explore"
    /\ IF "df" \in defined
       THEN /\ output' = output \o <<"Dataset Info", "First 5 Rows", "Missing Values">>
            /\ pc' = "to_datetime"
            /\ UNCHANGED error
       ELSE /\ output' = Append(output, "Dataset Info")
            /\ Halt("NameError")
    /\ UNCHANGED <<fileExists, file, defined, frames>>

\* df['date'] = pd.to_datetime(df['date'])
ConvertDate ==
    /\ pc = "to_datetime"
    /\ IF \A i \in 1..Len(df) : Parseable(df[i].date)
       THEN /\ df' = [i \in 1..Len(df) |-> [df[i] EXCEPT !.date = to_datetime(@)]]
            /\ pc' = "filter"
            /\ UNCHANGED error
       ELSE /\ Halt("ValueError")
            /\ UNCHANGED df
    /\ UNCHANGED <<fileExists, file, defined, df_filtered, latest_date, df_latest,
                   bar_data, df_global_latest, output>>

\* df_filtered = df[df['location'].isin(countries)].copy()
FilterCountries ==
    /\ pc = "filter"
    /\ df_filtered' = SelectSeq(df, LAMBDA r : isin(r.location, countries))
    /\ defined' = defined \cup {"df_filtered"}
    /\ pc' = "fillna"
    /\ UNCHANGED <<fileExists, file, df, latest_date, df_latest, bar_data,
                   df_global_latest, output, error>>

\* df_filtered[key_columns] = df_filtered[key_columns].fillna(0)
FillMissing ==
    /\ pc = "fillna"
    /\ df_filtered' = [i \in 1..Len(df_filtered) |-> fillna_key_columns(df_filtered[i])]
    /\ pc' = "death_rate"
    /\ UNCHANGED <<fileExists, file, defined, df, latest_date, df_latest, bar_data,
                   df_global_latest, output, error>>

\* df_filtered['death_rate'] = df_filtered['total_deaths'] / df_filtered['total_cases']
CalcDeathRate ==
    /\ pc = "death_rate"
    /\ df_filtered' = [i \in 1..Len(df_filtered) |->
            SetColumn(df_filtered[i], "death_rate",
                      TrueDiv(df_filtered[i].total_deaths, df_filtered[i].total_cases))]
    /\ pc' = "replace_inf"
    /\ UNCHANGED <<fileExists, file, defined, df, latest_date, df_latest, bar_data,
                   df_global_latest, output, error>>

\* df_filtered['death_rate'] = df_filtered['death_rate'].replace([np.inf, -np.inf], np.nan)
ReplaceInf ==
    /\ pc = "replace_inf"
    /\ df_filtered' = [i \in 1..Len(df_filtered) |->
            [df_filtered[i] EXCEPT !.death_rate = replace_inf(@)]]
    /\ pc' = "latest_date"
    /\ UNCHANGED <<fileExists, file, defined, df, latest_date, df_latest, bar_data,
                   df_global_latest, output, error>>

\* latest_date = df_filtered['date'].max()
LatestDate ==
    /\ pc = "latest_date"
    /\ latest_date' = DateColumnMax(df_filtered)
    /\ defined' = defined \cup {"latest_date"}
    /\ pc' = "df_latest"
    /\ UNCHANGED <<fileExists, file, df, df_filtered, df_latest, bar_data,
                   df_global_latest, output, error>>

\* df_latest = df_filtered[df_filtered['date'] == latest_date]
LatestSnapshot ==
    /\ pc = "df_latest"
    /\ df_latest' = rows_at(df_filtered, latest_date)
    /\ defined' = defined \cup {"df_latest"}
    /\ pc' = "print_latest"
    /\ UNCHANGED <<fileExists, file, df, df_filtered, latest_date, bar_data,
                   df_global_latest, output, error>>

\* print(f"... Latest date: {latest_date.date()}"): NaT.date() is NaT, no exception
PrintLatest ==
    /\ pc = "print_latest"
    /\ output' = Append(output, IF latest_date = NaT THEN "Latest date: NaT" ELSE "Latest date")
    /\ pc' = "eda_plots"
    /\ UNCHANGED <<fileExists, file, defined, frames, error>>

\* cells 4 and 5 up to the vaccination bar chart: line plots that read df_filtered
EdaPlots ==
    /\ pc = "eda_plots"
    /\ pc' = "pct_vaccinated"
    /\ UNCHANGED <<fileExists, file, defined, frames, output, error>>

\* df_latest['pct_vaccinated'] = (df_latest['people_vaccinated'] / df_latest['population']) * 100
PctVaccinated ==
    /\ pc = "pct_vaccinated"
    /\ df_latest' = [i \in 1..Len(df_latest) |->
            SetColumn(df_latest[i], "pct_vaccinated",
                      Mul(TrueDiv(df_latest[i].people_vaccinated, df_latest[i].population),
                          Num(100)))]
    /\ pc' = "barplot"
    /\ UNCHANGED <<fileExists, file, defined, df, df_filtered, latest_date, bar_data,
                   df_global_latest, output, error>>

\* sns.barplot(..., data=df_latest.sort_values('pct_vaccinated', ascending=False))
BarPlot ==
    /\ pc = "barplot"
    /\ bar_data' \in {s \in sort_values(df_latest) : IsSortedDesc(s)}
    /\ defined' = defined \cup {"bar_data"}
    /\ pc' = "global_latest"
    /\ UNCHANGED <<fileExists, file, df, df_filtered, latest_date, df_latest,
                   df_global_latest, output, error>>

\* df_global_latest = df[df['date'] == latest_date]
GlobalLatest ==
    /\ pc = "global_latest"
    /\ df_global_latest' = global_rows_at(df, latest_date)
    /\ defined' = defined \cup {"df_global_latest"}
    /\ pc' = "choropleth"
    /\ UNCHANGED <<fileExists, file, df, df_filtered, latest_date, df_latest,
                   bar_data, output, error>>

\* px.choropleth(df_global_latest, ...); fig.show()
Choropleth ==
    /\ pc = "choropleth"
    /\ pc' = "done"
    /\ UNCHANGED <<fileExists, file, defined, frames, output, error>>

Next ==
    \/ LoadData
    \/ LoadDataFileNotFound
    \/ Explore
    \/ ConvertDate
    \/ FilterCountries
    \/ FillMissing
    \/ CalcDeathRate
    \/ ReplaceInf
    \/ LatestDate
    \/ LatestSnapshot
    \/ PrintLatest
    \/ EdaPlots
    \/ PctVaccinated
    \/ BarPlot
    \/ GlobalLatest
    \/ Choropleth

Spec == Init /\ [][Next]_vars

\* ------------------------------------------------------ reading the state
Order == <<"load", "explore", "to_datetime", "filter", "fillna", "death_rate",
           "replace_inf", "latest_date", "df_latest", "print_latest", "eda_plots",
           "pct_vaccinated", "barplot", "global_latest", "choropleth", "done">>

Pos(p) == IF \E i \in 1..Len(Order) : Order[i] = p
          THEN CHOOSE i \in 1..Len(Order) : Order[i] = p
          ELSE 0

\* the statement named s has been executed
Past(s) == Pos(pc) > Pos(s)

Raw(r) == file[r.index + 1]

Rows(s) == {s[i] : i \in 1..Len(s)}

Labels(s) == {s[i].index : i \in 1..Len(s)}

Project(r, cols) == [c \in cols |-> r[c]]

KeptColumns == {"location", "date", "index", "total_cases_per_million"}

\* the rows that get a bar: those of the bar chart's data that have a percentage
Ranked == {r.index : r \in {b \in Rows(bar_data) : b.pct_vaccinated # NaN}}

FileNotFoundPrinted == \E i \in 1..Len(output) : output[i] = "Error: File not found."

\* ------------------------------------------------------------------ claims
\* C1: when the input file is absent the run prints the instructional
\* message and stops: no table, no downstream step, no uncaught error.
C1_MissingFileStopsCleanly ==
    (~fileExists /\ pc # "load") =>
        /\ FileNotFoundPrinted
        /\ defined = {}
        /\ error = "none"

\* C2: after fill and derivation, a row with total_cases > 0 has death_rate
\* equal to total_deaths / total_cases, and a row with total_cases = 0 (also
\* when it was missing and filled) has death_rate "no value", never +-inf.
C2_DeathRate ==
    Past("replace_inf") =>
        \A r \in Rows(df_filtered) \cup Rows(df_latest) :
            /\ r.total_cases[1] > 0 =>
                  /\ IsFinite(r.death_rate)
                  /\ r.death_rate[1] * r.total_cases[1] = r.total_deaths[1] * r.death_rate[2]
            /\ (r.total_cases = Num(0) \/ Raw(r).total_cases = NaN) => r.death_rate = NaN
            /\ r.death_rate \notin {PosInf, NegInf}

C2_Witness ==
    /\ pc = "done"
    /\ \E r \in Rows(df_filtered) :
          /\ Raw(r).total_cases = NaN
          /\ Raw(r).total_deaths = Num(1)
          /\ r.death_rate = NaN
    /\ \E r \in Rows(df_filtered) :
          /\ r.total_cases = Num(2)
          /\ r.death_rate = <<1, 2>>

C4_NoPopulationNoPercentage ==
    Past("pct_vaccinated") =>
        \A r \in Rows(df_latest) :
            Raw(r).population \in {NaN, Num(0)} =>
                /\ r.pct_vaccinated = NaN
                /\ "bar_data" \in defined => r.index \notin Ranked

\* C5: a configured country's row at the latest date with no
\* people_vaccinated value in the input is not in the vaccination ranking,
\* and is still in the Latest Snapshot and the Filtered Table.
C5_NoVaccinationDataNotRanked ==
    "bar_data" \in defined =>
        \A r \in Rows(df_latest) :
            Raw(r).people_vaccinated = NaN =>
                /\ r.index \notin Ranked
                /\ r.index \in Labels(df_filtered)

\* C6: with an empty Filtered Table snapshot selection fails with an
\* EmptyDatasetError and neither snapshot is computed from a null date.
C6_EmptyFilteredFails ==
    ("latest_date" \in defined /\ Len(df_filtered) = 0) =>
        /\ error = "EmptyDatasetError"
        /\ "df_latest" \notin defined
        /\ "df_global_latest" \notin defined

\* C7: the fill touches only the seven key columns of the Filtered Table:
\* the full table keeps every cell it was loaded with, missing ones included,
\* and a Filtered Table cell outside the seven columns keeps its "no value".
C7_FillFrame ==
    "df" \in defined =>
        /\ Len(df) = Len(file)
        /\ \A r \in Rows(df) :
              /\ \A c \in NumericColumns \cup {"location"} : r[c] = Raw(r)[c]
              /\ Raw(r).date = MissingText =>
                    IF Past("to_datetime") THEN r.date = NaT ELSE r.date = MissingText
        /\ "df_filtered" \in defined =>
              \A r \in Rows(df_filtered) :
                  /\ r.total_cases_per_million = Raw(r).total_cases_per_million
                  /\ r.location = Raw(r).location
                  /\ Raw(r).date = MissingText => r.date = NaT

C7_Witness ==
    /\ pc = "done"
    /\ \E r \in Rows(df_filtered) :
          /\ r.population = Num(0)
          /\ r.total_cases_per_million = NaN
          /\ df[r.index + 1].population = NaN
          /\ df[r.index + 1].location \in countries

\* C8: once the fill has run, no Filtered Table or Latest Snapshot row has
\* "no value" in a key column: a missing entry is 0, a present one unchanged.
C8_KeyColumnsFilled ==
    Past("fillna") =>
        \A r \in Rows(df_filtered) \cup Rows(df_latest) : \A c \in key_columns :
            /\ r[c] # NaN
            /\ r[c] = (IF Raw(r)[c] = NaN THEN Num(0) ELSE Raw(r)[c])

C8_Witness ==
    /\ pc = "done"
    /\ \E r \in Rows(df_latest) :
          /\ Raw(r).population = NaN
          /\ Raw(r).people_vaccinated = NaN
          /\ Raw(r).total_cases = Num(MaxVal)
          /\ r.population = Num(0)
          /\ r.total_cases = Num(MaxVal)

\* C9: the Filtered Table is exactly the table rows whose location is,
\* case-sensitively, a configured country; a configured name with no row
\* adds nothing and raises nothing.
C9_FilterExact ==
    /\ "df_filtered" \in defined =>
          /\ Labels(df_filtered) = {r.index : r \in {x \in Rows(df) : x.location \in countries}}
          /\ Len(df_filtered) = Cardinality(Labels(df_filtered))
          /\ \A r \in Rows(df_filtered) :
                Project(r, KeptColumns) = Project(df[r.index + 1], KeptColumns)
          /\ error = "none"
    /\ (pc = "halted" /\ error # "none") => "df_filtered" \notin defined

C9_Witness ==
    /\ pc = "done"
    /\ Len(df_filtered) > 0
    /\ Len(df_filtered) < Len(df)
    /\ \E r \in Rows(df) : r.location = "kenya"
    /\ \E n \in countries : \A r \in Rows(df) : r.location # n

\* C10: for a non-empty Filtered Table the Latest Snapshot is exactly its
\* rows at its maximum date, and with one record per (location, date) in the
\* input it has at most one row per country.
C10_LatestSnapshot ==
    ("df_latest" \in defined /\ Len(df_filtered) > 0) =>
        /\ {Project(r, DOMAIN df_filtered[1]) : r \in Rows(df_latest)} =
              {x \in Rows(df_filtered) :
                  x.date # NaT /\ \A y \in Rows(df_filtered) : y.date = NaT \/ y.date <= x.date}
        /\ Len(df_latest) = Cardinality(Labels(df_latest))
        /\ (\A i, j \in 1..Len(file) :
                (file[i].location = file[j].location /\ file[i].date = file[j].date) => i = j)
           => \A i, j \in 1..Len(df_latest) :
                df_latest[i].location = df_latest[j].location => i = j

C10_Witness ==
    /\ pc = "done"
    /\ Len(df_latest) = 2
    /\ Len(df_filtered) = 3
    /\ df_latest[1].location # df_latest[2].location

====
